---- MODULE Spec2Model ----
(***************************************************************************)
(* OptimizerTcpManager (open-codegen/opengen/tcp/optimizer_tcp_manager.py) *)
(* as a state machine: the constructor, the public operations start(),     *)
(* ping(), call() and kill() cut into the steps at which the background    *)
(* launch thread, the child processes and the TCP peer can interleave.     *)
(*                                                                         *)
(* Python's None is <<>> and a present value v is <<v>>.  A dict is a      *)
(* function on its keys, so that a missing key (KeyError) is a key that is *)
(* not in the DOMAIN.  Byte strings read from the socket are sequences of  *)
(* one-character strings over the alphabet "[", "]", "1", and "#" for a    *)
(* byte that is not valid UTF-8.                                           *)
(***************************************************************************)
EXTENDS Integers, Sequences, FiniteSets, TLC

\* ------------------------------------------------------------------ bounds
\* start() is called at most this many times past its port probe
MaxLaunches == 2
\* ping()/kill() read with buffer_size=512, max_data_size=1048576 in the
\* source (2048 rounds); the model keeps the formula and scales the sizes
PingBufferSize == 2
PingMaxDataSize == 4
\* the largest buffer_len / max_data_size a caller passes to call()
MaxBufferLen == 2
MaxDataSize == 3
\* the longest parameter vector a caller passes to call()
MaxParamLen == 1

\* ------------------------------------------------------- optional values
None == <<>>
Some(v) == <<v>>
IsNone(x) == x = <<>>
Get(x) == x[1]

\* --------------------------------------------------------- pure helpers
\* a rounding slip: one more than the floor, also when buffer_size divides
floor_plus_one(mds, bs) == (mds \div bs) + 1

\* math.ceil(max_data_size/buffer_size) for positive integers
max_read_rounds(mds, bs) == (mds + bs - 1) \div bs

\* str(x) of an integer x
str(x) == ToString(x)

\* str(float(x)) of an integer x
str_float(x) == ToString(x) \o ".0"

\* ','.join(map(str, v))
RECURSIVE join_str(_)
join_str(v) ==
    IF Len(v) = 0 THEN ""
    ELSE IF Len(v) = 1 THEN str(v[1])
    ELSE str(v[1]) \o "," \o join_str(Tail(v))

\* a request text with the multipliers written before the initial guess
run_message_reordered(p, initial_guess, initial_y, initial_penalty) ==
    LET m0 == "{\"Run\" : {\"parameter\": [" \o join_str(p) \o "]"
        m1 == IF ~IsNone(initial_y)
              THEN m0 \o ", \"initial_lagrange_multipliers\": [" \o join_str(Get(initial_y)) \o "]"
              ELSE m0
        m2 == IF ~IsNone(initial_guess)
              THEN m1 \o ", \"initial_guess\": [" \o join_str(Get(initial_guess)) \o "]"
              ELSE m1
        m3 == IF ~IsNone(initial_penalty)
              THEN m2 \o ", \"initial_penalty\": " \o str_float(Get(initial_penalty))
              ELSE m2
    IN  m3 \o "}}"

\* the request text call() builds
run_message(p, initial_guess, initial_y, initial_penalty) ==
    LET m0 == "{\"Run\" : {\"parameter\": [" \o join_str(p) \o "]"
        m1 == IF ~IsNone(initial_guess)
              THEN m0 \o ", \"initial_guess\": [" \o join_str(Get(initial_guess)) \o "]"
              ELSE m0
        m2 == IF ~IsNone(initial_y)
              THEN m1 \o ", \"initial_lagrange_multipliers\": [" \o join_str(Get(initial_y)) \o "]"
              ELSE m1
        m3 == IF ~IsNone(initial_penalty)
              THEN m2 \o ", \"initial_penalty\": " \o str_float(Get(initial_penalty))
              ELSE m2
    IN  m3 \o "}}"

\* data.decode() (line 92): the text of the bytes, or None for the
\* UnicodeDecodeError raised on a byte that is not valid UTF-8
bytes_decode(b) ==
    IF \E i \in 1..Len(b) : b[i] = "#" THEN None ELSE Some(b)

ping_request == "{\"Ping\":1}"
kill_request == "{\"Kill\":1}"

\* json.loads on a text over "[", "]", "1": without a comma an array holds at
\* most one value, so the documents are [^k 1^m ]^k with k >= 1, or 1^m with
\* m >= 1.  The result is <<>> for a decode error and <<[depth, digits]>> for
\* the decoded document.
RECURSIVE count_prefix(_, _)
count_prefix(s, c) ==
    IF Len(s) > 0 /\ s[1] = c THEN 1 + count_prefix(Tail(s), c) ELSE 0

json_loads(s) ==
    LET k    == count_prefix(s, "[")
        rest == SubSeq(s, k + 1, Len(s))
        m    == count_prefix(rest, "1")
        tail == SubSeq(rest, m + 1, Len(rest))
        c    == count_prefix(tail, "]")
    IN  IF c = Len(tail) /\ c = k /\ (k >= 1 \/ m >= 1)
        THEN Some([depth |-> k, digits |-> m])
        ELSE None


\* ------------------------------------------------- constructor arguments
\* what open(<optimizer_path>/optimizer.yml) and yaml.safe_load give: None
\* for a missing or unreadable file, else the dict of the descriptor
tcp_of_yml == [ip |-> "127.0.0.1", port |-> 8333]
current_opengen_version == "0.6.0"
yml(mode, version) ==
    [tcp   |-> tcp_of_yml,
     build |-> [build_mode |-> mode, opengen_version |-> version],
     meta  |-> [optimizer_name |-> "foo"]]
yml_no_tcp   == [build |-> [build_mode |-> "debug", opengen_version |-> "0.6.0"],
                 meta  |-> [optimizer_name |-> "foo"]]
yml_no_build == [tcp |-> tcp_of_yml, meta |-> [optimizer_name |-> "foo"]]
yml_no_meta  == [tcp   |-> tcp_of_yml,
                 build |-> [build_mode |-> "release", opengen_version |-> "0.5.0"]]
Ymls == {yml("debug", "0.6.0"), yml_no_tcp, yml_no_build, yml_no_meta}
Files == {None} \cup {Some(y) : y \in Ymls}
Paths == {None, Some("/opt/foo")}
Ips   == {None, Some("10.0.0.2")}
Ports == {None, Some(9555)}

\* OptimizerTcpManager.__load_tcp_details: the dict read, or the error raised
load_tcp_details(file) ==
    IF IsNone(file) THEN [status |-> "IOError", details |-> <<>>]
    ELSE IF "tcp" \notin DOMAIN Get(file)
         THEN [status |-> "KeyError", details |-> <<>>]
         ELSE [status |-> "ok", details |-> Get(file)]

\* the version check that ends __init__ (lines 40-45), on the details kept
version_check(path, details) ==
    IF "build" \notin DOMAIN details
    THEN [status |-> "KeyError", optimizer_path |-> path,
          details |-> details, warned |-> FALSE]
    ELSE [status |-> "ok", optimizer_path |-> path, details |-> details,
          warned |-> current_opengen_version # details.build.opengen_version]

\* a constructor in which an explicit host/port given along with the launch
\* path replaces the endpoint of the descriptor
init_endpoint_overrides(path, ip, port, file) ==
    IF ~IsNone(path)
    THEN LET l == load_tcp_details(file)
         IN  IF l.status # "ok"
             THEN [status |-> l.status, optimizer_path |-> path,
                   details |-> <<>>, warned |-> FALSE]
             ELSE version_check(path,
                    IF ~IsNone(ip) /\ ~IsNone(port)
                    THEN [l.details EXCEPT !.tcp = [ip |-> Get(ip), port |-> Get(port)]]
                    ELSE l.details)
    ELSE IF ~IsNone(ip) /\ ~IsNone(port)
         THEN version_check(path, [tcp |-> [ip |-> Get(ip), port |-> Get(port)]])
         ELSE [status |-> "IllegalArguments", optimizer_path |-> path,
               details |-> <<>>, warned |-> FALSE]

\* OptimizerTcpManager.__init__: how the constructor ends and what it keeps
init(path, ip, port, file) ==
    IF ~IsNone(path)
    THEN LET l == load_tcp_details(file)
         IN  IF l.status # "ok"
             THEN [status |-> l.status, optimizer_path |-> path,
                   details |-> <<>>, warned |-> FALSE]
             ELSE version_check(path, l.details)
    ELSE IF ~IsNone(ip) /\ ~IsNone(port)
         THEN version_check(path, [tcp |-> [ip |-> Get(ip), port |-> Get(port)]])
         ELSE [status |-> "IllegalArguments", optimizer_path |-> path,
               details |-> <<>>, warned |-> FALSE]

\* ------------------------------------------------------------- the state
VARIABLES
    phase,              \* "new", "constructed", or "failed": __init__ raised
    optimizer_path,     \* self.__optimizer_path
    optimizer_details,  \* self.__optimizer_details_from_yml
    warned,             \* the version-mismatch warning was logged
    op,                 \* the public operation in progress, or "none"
    pc,                 \* the caller's position inside it
    outcome,            \* how the last operation ended, until the next begins;
                        \* for __init__ its value holds the arguments passed
    text_to_send,       \* the request of the transaction in progress
    run_args,           \* the arguments of the call() in progress, else None
    buffer_size,        \* its read buffer size
    max_data_size,      \* its response size cap
    attempts,           \* connect attempts made by the retry in progress, or
                        \* by the retry that gave up, until the next begins
    conn_socket,        \* "none", "open", "halfclosed", "closed"
    peer,               \* what the accepting server does on this connection
    reads,              \* the length of every chunk recv returned so far
    data,               \* the bytes accumulated so far
    events,             \* the steps of the operation in progress, in order
    threads,            \* launch threads started that did not reach Popen yet
    children,           \* child processes alive and not yet listening
    listener,           \* who accepts on ip:port: "none", "foreign", "child"
    launches,           \* thread.start() calls so far
    kill_done,          \* some kill() has returned on this instance
    unclosed            \* a socket the client created was left without
                        \* close() and has not been finalized by the collector

vars == <<phase, optimizer_path, optimizer_details, warned, op, pc,
          outcome, text_to_send, buffer_size, max_data_size, attempts,
          conn_socket, peer, reads, data, events, threads, children, listener,
          launches, kill_done, run_args, unclosed>>

client_vars == <<phase, optimizer_path, optimizer_details, warned>>
tx_vars == <<text_to_send, run_args, buffer_size, max_data_size, attempts, conn_socket,
             peer, reads, data>>
env_vars == <<threads, children, listener>>
hist_vars == <<launches, kill_done>>

no_outcome == [op |-> "none", status |-> "none", value |-> None]
no_peer == [doc |-> <<>>, mode |-> "none"]

Init ==
    /\ phase = "new"
    /\ optimizer_path = None
    /\ optimizer_details = <<>>
    /\ warned = FALSE
    /\ op = "none"
    /\ pc = "idle"
    /\ outcome = no_outcome
    /\ text_to_send = ""
    /\ buffer_size = PingBufferSize
    /\ max_data_size = PingMaxDataSize
    /\ attempts = 0
    /\ conn_socket = "none"
    /\ peer = no_peer
    /\ reads = <<>>
    /\ data = <<>>
    /\ events = <<>>
    /\ threads = 0
    /\ children = 0
    /\ listener \in {"none", "foreign"}
    /\ launches = 0
    /\ kill_done = FALSE
    /\ run_args = None
    /\ unclosed = FALSE

\* OptimizerTcpManager(optimizer_path, ip, port)
Construct ==
    /\ phase = "new"
    /\ \E path \in Paths, ip \in Ips, port \in Ports, file \in Files :
         LET r == init(path, ip, port, file)
         IN  /\ IF r.status = "ok"
                THEN /\ phase' = "constructed"
                     /\ optimizer_path' = r.optimizer_path
                     /\ optimizer_details' = r.details
                     /\ warned' = r.warned
                ELSE /\ phase' = "failed"
                     /\ UNCHANGED <<optimizer_path, optimizer_details, warned>>
             /\ outcome' = [op |-> "__init__", status |-> r.status,
                             value |-> Some([optimizer_path |-> path, ip |-> ip,
                                             port |-> port, file |-> file])]
    /\ UNCHANGED <<op, pc, events>>
    /\ UNCHANGED tx_vars
    /\ UNCHANGED env_vars
    /\ UNCHANGED hist_vars
    /\ UNCHANGED unclosed

\* ------------------------------------------------------ helpers of steps
\* the operation in progress ends: it returns (status "ok") or raises
finish(status, value) ==
    /\ outcome' = [op |-> op, status |-> status, value |-> value]
    /\ op' = "none"
    /\ pc' = "idle"
    /\ kill_done' = (kill_done \/ (op = "kill" /\ status = "ok"))
    /\ UNCHANGED launches

\* the locals of __send_receive_data are gone when it returns or raises
end_locals ==
    /\ text_to_send' = ""
    /\ run_args' = None
    /\ buffer_size' = PingBufferSize
    /\ max_data_size' = PingMaxDataSize
    /\ conn_socket' = "none"
    /\ peer' = no_peer
    /\ reads' = <<>>
    /\ data' = <<>>

end_transaction == end_locals /\ attempts' = 0

idle == phase = "constructed" /\ op = "none" /\ pc = "idle"

\* a socket goes out of scope without close() (lines 73-74, 107-108, and
\* line 78's socket when line 80, 81 or 86 raises): it stays open until the
\* collector finalizes it, which may be at once or later
left_unclosed == unclosed' \in {unclosed, TRUE}

\* the defaults of __send_receive_data's buffer_size and max_data_size
default_buffer_size == PingBufferSize
default_max_data_size == PingMaxDataSize

\* a transaction begins: __send_receive_data(text, buffer_size, max_data_size)
begin_transaction(text, a, bs, mds) ==
    /\ text_to_send' = text
    /\ run_args' = a
    /\ buffer_size' = bs
    /\ max_data_size' = mds
    /\ attempts' = 0
    /\ conn_socket' = "none"
    /\ peer' = no_peer
    /\ reads' = <<>>
    /\ data' = <<>>
    /\ pc' = "connect"

\* ------------------------------------------------------------- start()
\* the probe with its comparison inverted
check_inverted == listener = "none"

\* __check_if_server_is_running: 0 == s.connect_ex((ip, port))
check_if_server_is_running == listener # "none"

\* a start() that also refuses once kill() has returned
no_path_or_stopped == IsNone(optimizer_path) \/ kill_done

\* start(), line 114: the client has no launch path
no_optimizer_path == IsNone(optimizer_path)

\* start(), lines 114-119: the launch-path check and the port probe
start ==
    /\ idle
    /\ launches < MaxLaunches
    /\ IF no_optimizer_path
       THEN /\ outcome' = [op |-> "start", status |-> "UsageError", value |-> None]
            /\ events' = <<>>
            /\ UNCHANGED <<op, pc, unclosed>>
       ELSE IF check_if_server_is_running
            THEN /\ outcome' = [op |-> "start", status |-> "PortUnavailable",
                                value |-> None]
                 /\ events' = <<"probe">>
                 /\ left_unclosed
                 /\ UNCHANGED <<op, pc>>
            ELSE /\ op' = "start"
                 /\ pc' = "launch"
                 /\ events' = <<"probe">>
                 /\ left_unclosed
                 /\ outcome' = no_outcome
    /\ attempts' = 0
    /\ UNCHANGED <<text_to_send, run_args, buffer_size, max_data_size, conn_socket,
                   peer, reads, data>>
    /\ UNCHANGED client_vars
    /\ UNCHANGED env_vars
    /\ UNCHANGED hist_vars

\* start(), lines 121-123: Thread(target=self.__threaded_start).start()
start_thread ==
    /\ op = "start" /\ pc = "launch"
    /\ threads' = threads + 1
    /\ launches' = launches + 1
    /\ events' = Append(events, "thread")
    /\ pc' = "sleep"
    /\ UNCHANGED <<op, outcome, children, listener, kill_done>>
    /\ UNCHANGED client_vars
    /\ UNCHANGED tx_vars
    /\ UNCHANGED unclosed

\* a start() that joins the launch thread, and so the child, before its ping
start_joins ==
    /\ op = "start" /\ pc = "sleep"
    /\ threads = 0 /\ children = 0 /\ listener # "child"
    /\ events' = Append(events, "sleep")
    /\ pc' = "ping"
    /\ UNCHANGED <<op, outcome>>
    /\ UNCHANGED client_vars
    /\ UNCHANGED tx_vars
    /\ UNCHANGED env_vars
    /\ UNCHANGED hist_vars
    /\ UNCHANGED unclosed

\* start(), line 128: time.sleep(2)
start_sleep ==
    /\ op = "start" /\ pc = "sleep"
    /\ events' = Append(events, "sleep")
    /\ pc' = "ping"
    /\ UNCHANGED <<op, outcome>>
    /\ UNCHANGED client_vars
    /\ UNCHANGED tx_vars
    /\ UNCHANGED env_vars
    /\ UNCHANGED hist_vars
    /\ UNCHANGED unclosed

\* --------------------------------------------- ping(), kill(), call()
\* a ping() that forgets the launch path of the client
ping_forgets_path ==
    /\ \/ idle /\ op' = "ping" /\ events' = <<"ping">>
       \/ op = "start" /\ pc = "ping" /\ op' = op /\ events' = Append(events, "ping")
    /\ begin_transaction(ping_request, None, default_buffer_size, default_max_data_size)
    /\ outcome' = no_outcome
    /\ optimizer_path' = None
    /\ UNCHANGED <<phase, optimizer_details, warned>>
    /\ UNCHANGED env_vars
    /\ UNCHANGED hist_vars
    /\ UNCHANGED unclosed

\* ping(), lines 99-100, called by the user or by start() (line 129)
ping ==
    /\ \/ idle /\ op' = "ping" /\ events' = <<"ping">>
       \/ op = "start" /\ pc = "ping" /\ op' = op /\ events' = Append(events, "ping")
    /\ begin_transaction(ping_request, None, default_buffer_size, default_max_data_size)
    /\ outcome' = no_outcome
    /\ UNCHANGED client_vars
    /\ UNCHANGED env_vars
    /\ UNCHANGED hist_vars
    /\ UNCHANGED unclosed

\* kill(), lines 133-135
kill ==
    /\ idle
    /\ op' = "kill"
    /\ events' = <<"kill">>
    /\ begin_transaction(kill_request, None, default_buffer_size, default_max_data_size)
    /\ outcome' = no_outcome
    /\ UNCHANGED client_vars
    /\ UNCHANGED env_vars
    /\ UNCHANGED hist_vars
    /\ UNCHANGED unclosed

\* the arguments callers pass to call()
RECURSIVE Vectors(_)
Vectors(n) == IF n = 0 THEN {<<>>}
              ELSE Vectors(n - 1) \cup {Append(v, n) : v \in Vectors(n - 1)}
Parameters == Vectors(MaxParamLen)
Guesses == {None, Some(<<3>>)}
Multipliers == {None, Some(<<4, 5>>)}
Penalties == {None, Some(6)}
BufferLens == 1..MaxBufferLen
MaxDataSizes == {MaxDataSize}

\* a call() that raises on an empty parameter vector before it connects
call_validates ==
    /\ idle
    /\ \E p \in Parameters, initial_guess \in Guesses, initial_y \in Multipliers,
          initial_penalty \in Penalties,
          buffer_len \in BufferLens, mds \in MaxDataSizes :
         IF Len(p) = 0
         THEN /\ outcome' = [op |-> "call", status |-> "ValueError", value |-> None]
              /\ events' = <<"call">>
              /\ UNCHANGED <<op, pc>>
              /\ UNCHANGED tx_vars
         ELSE /\ begin_transaction(
                    run_message(p, initial_guess, initial_y, initial_penalty),
                    Some([p |-> p, initial_guess |-> initial_guess,
                          initial_y |-> initial_y,
                          initial_penalty |-> initial_penalty]),
                    buffer_len, mds)
              /\ op' = "call"
              /\ events' = <<"call">>
              /\ outcome' = no_outcome
    /\ UNCHANGED client_vars
    /\ UNCHANGED env_vars
    /\ UNCHANGED hist_vars
    /\ UNCHANGED unclosed

\* call(), lines 162-181
call ==
    /\ idle
    /\ \E p \in Parameters, initial_guess \in Guesses, initial_y \in Multipliers,
          initial_penalty \in Penalties,
          buffer_len \in BufferLens, mds \in MaxDataSizes :
         begin_transaction(run_message(p, initial_guess, initial_y, initial_penalty),
                           Some([p |-> p, initial_guess |-> initial_guess,
                                 initial_y |-> initial_y,
                                 initial_penalty |-> initial_penalty]),
                           buffer_len, mds)
    /\ op' = "call"
    /\ events' = <<"call">>
    /\ outcome' = no_outcome
    /\ UNCHANGED client_vars
    /\ UNCHANGED env_vars
    /\ UNCHANGED hist_vars
    /\ UNCHANGED unclosed

\* ------------------------------------------------- __send_receive_data
\* a retry that gives up one attempt early
tries_one_less == 10 - 1

\* @retry(tries=10, delay=1) on __obtain_socket_connection
tries == 10

\* what the server that accepted the connection does on it: the document it
\* sends and then "close" (closes), "hang" (keeps the connection open and
\* silent), "endless" (keeps sending), "reset" (resets the connection once
\* the request is written: the client meets the reset at its half-close or
\* at its read) or "broken" (resets it, or closes it without reading, right
\* after accepting: the client meets the reset at its write, at its
\* half-close or at its read, whichever the reset arrives before)
Peers ==
    {[doc |-> d, mode |-> "close"] :
        d \in {<<>>, <<"[", "]">>, <<"1", "1", "1">>, <<"[", "1", "]">>, <<"#">>}}
    \cup {[doc |-> <<"[", "]">>, mode |-> "hang"],
          [doc |-> <<"[", "]">>, mode |-> "endless"],
          [doc |-> <<>>, mode |-> "reset"],
          [doc |-> <<>>, mode |-> "broken"]}

\* the bytes of the server's stream from position i + 1 on, n of them
stream(i, n) ==
    [j \in 1..n |-> IF i + j <= Len(peer.doc) THEN peer.doc[i + j] ELSE "1"]

\* the bytes the server has still to send after the first i
available(i) ==
    IF peer.mode = "endless" THEN buffer_size
    ELSE IF Len(peer.doc) > i THEN Len(peer.doc) - i ELSE 0

Min(a, b) == IF a < b THEN a ELSE b

\* __obtain_socket_connection, lines 70-75, one attempt under retry
obtain_socket_connection ==
    /\ pc = "connect"
    /\ IF listener # "none"
       THEN /\ attempts' = 0
            /\ conn_socket' = "open"
            /\ \E q \in Peers : peer' = q
            /\ events' = Append(events, "connect")
            /\ pc' = "send"
            /\ UNCHANGED <<op, outcome, text_to_send, run_args, buffer_size,
                           max_data_size, reads, data, unclosed>>
            /\ UNCHANGED hist_vars
       ELSE /\ attempts' = attempts + 1
            /\ left_unclosed
            /\ UNCHANGED events
            /\ IF attempts + 1 = tries
               THEN finish("ConnectionError", None) /\ end_locals
               ELSE /\ UNCHANGED <<op, pc, outcome, text_to_send, run_args, buffer_size,
                                   max_data_size, conn_socket, peer, reads, data>>
                    /\ UNCHANGED hist_vars
    /\ UNCHANGED client_vars
    /\ UNCHANGED env_vars

\* a transaction that connects again and resends when the write fails
sendall_reconnects ==
    /\ pc = "send"
    /\ \/ /\ peer.mode = "broken"
          /\ events' = Append(events, "send_failed")
          /\ pc' = "connect"
          /\ conn_socket' = "none"
          /\ peer' = no_peer
          /\ left_unclosed
          /\ UNCHANGED <<op, outcome, text_to_send, run_args, buffer_size,
                         max_data_size, attempts, reads, data>>
       \/ /\ events' = Append(events, "send")
          /\ pc' = "shutdown"
          /\ UNCHANGED <<op, outcome, unclosed>>
          /\ UNCHANGED tx_vars
    /\ UNCHANGED hist_vars
    /\ UNCHANGED client_vars
    /\ UNCHANGED env_vars

\* a transaction that reads right after writing, without the half-close
sendall_then_recv ==
    /\ pc = "send"
    /\ \/ /\ peer.mode = "broken"
          /\ events' = Append(events, "send_failed")
          /\ finish("TransportError", None)
          /\ end_transaction
          /\ left_unclosed
       \/ /\ events' = Append(events, "send")
          /\ pc' = "recv"
          /\ UNCHANGED <<op, outcome, unclosed>>
          /\ UNCHANGED tx_vars
          /\ UNCHANGED hist_vars
    /\ UNCHANGED client_vars
    /\ UNCHANGED env_vars

\* __send_receive_data, lines 79-80: conn_socket.sendall(encoded_data)
\* raises when the reset of the peer has arrived, else returns
sendall ==
    /\ pc = "send"
    /\ \/ /\ peer.mode = "broken"
          /\ events' = Append(events, "send_failed")
          /\ finish("TransportError", None)
          /\ end_transaction
          /\ left_unclosed
       \/ /\ events' = Append(events, "send")
          /\ pc' = "shutdown"
          /\ UNCHANGED <<op, outcome, unclosed>>
          /\ UNCHANGED tx_vars
          /\ UNCHANGED hist_vars
    /\ UNCHANGED client_vars
    /\ UNCHANGED env_vars

\* __send_receive_data, line 81: conn_socket.shutdown(socket.SHUT_WR) returns,
\* or raises OSError (not connected) when the reset of the peer has arrived:
\* the operation ends there, before any read and without close()
shutdown ==
    /\ pc = "shutdown"
    /\ \/ /\ conn_socket' = "halfclosed"
          /\ events' = Append(events, "shutdown")
          /\ pc' = "recv"
          /\ UNCHANGED <<op, outcome, text_to_send, run_args, buffer_size,
                         max_data_size, attempts, peer, reads, data>>
          /\ UNCHANGED hist_vars
          /\ UNCHANGED unclosed
       \/ /\ peer.mode \in {"reset", "broken"}
          /\ events' = Append(events, "shutdown_failed")
          /\ finish("TransportError", None)
          /\ end_transaction
          /\ left_unclosed
    /\ UNCHANGED client_vars
    /\ UNCHANGED env_vars

\* line 87, `if data_chunk is None`: recv returns a bytes object, b'' once the
\* peer has closed, and never None
is_None(data_chunk) == FALSE

\* the read loop still has a round to run (line 85)
loop_continues == pc = "recv" /\ Len(reads) < max_read_rounds(max_data_size, buffer_size)

\* one round of the read loop with the chunk recv returned (lines 86-89)
read_round(data_chunk) ==
    /\ reads' = Append(reads, Len(data_chunk))
    /\ events' = Append(events, "recv")
    /\ IF is_None(data_chunk)
       THEN pc' = "close" /\ data' = data
       ELSE pc' = pc /\ data' = data \o data_chunk
    /\ UNCHANGED <<op, outcome, text_to_send, run_args, buffer_size, max_data_size,
                   attempts, conn_socket, peer>>
    /\ UNCHANGED client_vars
    /\ UNCHANGED env_vars
    /\ UNCHANGED hist_vars
    /\ UNCHANGED unclosed

\* conn_socket.recv(buffer_size) returns data: 1..buffer_size bytes
recv_data ==
    /\ loop_continues
    /\ available(Len(data)) > 0
    /\ \E n \in 1..Min(buffer_size, available(Len(data))) :
         read_round(stream(Len(data), n))

\* conn_socket.recv(buffer_size) returns b'': the peer closed its side
recv_eof ==
    /\ loop_continues
    /\ available(Len(data)) = 0
    /\ peer.mode = "close"
    /\ read_round(<<>>)

\* conn_socket.recv(buffer_size) raises: the peer reset the connection
recv_error ==
    /\ loop_continues
    /\ available(Len(data)) = 0
    /\ peer.mode \in {"reset", "broken"}
    /\ events' = Append(events, "recv_failed")
    /\ finish("TransportError", None)
    /\ end_transaction
    /\ left_unclosed
    /\ UNCHANGED client_vars
    /\ UNCHANGED env_vars

\* a transaction that returns after the read loop without close()
close_skipped ==
    /\ \/ pc = "recv" /\ ~loop_continues
       \/ pc = "close"
    /\ events' = Append(events, "close")
    /\ pc' = "decode"
    /\ UNCHANGED <<op, outcome, text_to_send, run_args, buffer_size, max_data_size,
                   attempts, conn_socket, peer, reads, data>>
    /\ UNCHANGED client_vars
    /\ UNCHANGED env_vars
    /\ UNCHANGED hist_vars
    /\ UNCHANGED unclosed

\* the loop is over (the rounds are used up, or the break): line 91,
\* conn_socket.close()
close ==
    /\ \/ pc = "recv" /\ ~loop_continues
       \/ pc = "close"
    /\ conn_socket' = "closed"
    /\ events' = Append(events, "close")
    /\ pc' = "decode"
    /\ UNCHANGED <<op, outcome, text_to_send, run_args, buffer_size, max_data_size,
                   attempts, peer, reads, data>>
    /\ UNCHANGED client_vars
    /\ UNCHANGED env_vars
    /\ UNCHANGED hist_vars
    /\ UNCHANGED unclosed

\* SolverResponse(d) wraps the decoded document
SolverResponse(d) == d

\* a start() that does not look at how its ping ended
result_unchecked_by_start(operation, text) ==
    IF operation \in {"kill", "start"} THEN [status |-> "ok", value |-> None]
    ELSE IF IsNone(json_loads(text)) THEN [status |-> "DecodeError", value |-> None]
    ELSE IF operation = "ping"
         THEN [status |-> "ok", value |-> json_loads(text)]
    ELSE [status |-> "ok", value |-> json_loads(text)]

\* a ping() and a call() that return None for a response that does not decode
result_lenient(operation, text) ==
    IF operation = "kill" /\ ~IsNone(bytes_decode(text))
    THEN [status |-> "ok", value |-> None]
    ELSE IF IsNone(bytes_decode(text)) \/ IsNone(json_loads(text))
    THEN [status |-> IF operation \in {"ping", "call"} THEN "ok" ELSE "DecodeError",
          value |-> None]
    ELSE IF operation = "ping"
         THEN [status |-> "ok", value |-> json_loads(text)]
    ELSE IF operation = "call"
         THEN [status |-> "ok", value |-> Some(Get(json_loads(text)))]
    ELSE [status |-> "ok", value |-> None]

\* a kill() that parses the reply as ping() does
result_kill_parses(operation, text) ==
    IF IsNone(bytes_decode(text)) \/ IsNone(json_loads(text))
    THEN [status |-> "DecodeError", value |-> None]
    ELSE IF operation = "ping"
         THEN [status |-> "ok", value |-> json_loads(text)]
    ELSE IF operation = "call"
         THEN [status |-> "ok", value |-> Some(Get(json_loads(text)))]
    ELSE [status |-> "ok", value |-> None]

\* what the operation does with the text __send_receive_data returned:
\* every operation gets it from data.decode() (line 92); ping() (line 101)
\* and call() (line 182) parse it, kill() drops it, and start() returns once
\* its ping has returned (line 129).  UnicodeDecodeError and JSONDecodeError
\* are both the status "DecodeError"
result_of(operation, text) ==
    IF IsNone(bytes_decode(text)) THEN [status |-> "DecodeError", value |-> None]
    ELSE IF operation = "kill" THEN [status |-> "ok", value |-> None]
    ELSE IF IsNone(json_loads(text)) THEN [status |-> "DecodeError", value |-> None]
    ELSE IF operation = "ping"
         THEN [status |-> "ok", value |-> json_loads(text)]
    ELSE IF operation = "call"
         THEN [status |-> "ok", value |-> Some(SolverResponse(Get(json_loads(text))))]
    ELSE [status |-> "ok", value |-> None]

\* line 92, return data.decode(), and the rest of the public operation
return ==
    /\ pc = "decode"
    /\ events' = Append(events, "decode")
    /\ finish(result_of(op, data).status, result_of(op, data).value)
    /\ end_transaction
    /\ UNCHANGED client_vars
    /\ UNCHANGED env_vars
    /\ UNCHANGED unclosed

\* ------------------------------------- the launch thread, the processes
\* __threaded_start, lines 56-65: KeyError on a descriptor without 'meta',
\* else Popen, which spawns the child or raises
threaded_start ==
    /\ threads > 0
    /\ threads' = threads - 1
    /\ IF "meta" \notin DOMAIN optimizer_details
       THEN children' = children
       ELSE \E spawned \in BOOLEAN :
               children' = IF spawned THEN children + 1 ELSE children
    /\ UNCHANGED <<op, pc, outcome, events, listener>>
    /\ UNCHANGED client_vars
    /\ UNCHANGED tx_vars
    /\ UNCHANGED hist_vars
    /\ UNCHANGED unclosed

\* a child binds the port and accepts connections
child_listens ==
    /\ children > 0
    /\ listener = "none"
    /\ children' = children - 1
    /\ listener' = "child"
    /\ UNCHANGED <<op, pc, outcome, events, threads>>
    /\ UNCHANGED client_vars
    /\ UNCHANGED tx_vars
    /\ UNCHANGED hist_vars
    /\ UNCHANGED unclosed

\* a child that is not listening exits (the build fails, the port is taken)
child_exits ==
    /\ children > 0
    /\ children' = children - 1
    /\ UNCHANGED <<op, pc, outcome, events, threads, listener>>
    /\ UNCHANGED client_vars
    /\ UNCHANGED tx_vars
    /\ UNCHANGED hist_vars
    /\ UNCHANGED unclosed

\* the listening server exits (it was killed, or it crashed)
server_exits ==
    /\ listener # "none"
    /\ listener' = "none"
    /\ UNCHANGED <<op, pc, outcome, events, threads, children>>
    /\ UNCHANGED client_vars
    /\ UNCHANGED tx_vars
    /\ UNCHANGED hist_vars
    /\ UNCHANGED unclosed

\* another process binds the port
foreign_listens ==
    /\ listener = "none"
    /\ listener' = "foreign"
    /\ UNCHANGED <<op, pc, outcome, events, threads, children>>
    /\ UNCHANGED client_vars
    /\ UNCHANGED tx_vars
    /\ UNCHANGED hist_vars
    /\ UNCHANGED unclosed

\* a silent peer closes the connection after all
peer_closes ==
    /\ pc = "recv"
    /\ peer.mode = "hang"
    /\ peer' = [peer EXCEPT !.mode = "close"]
    /\ UNCHANGED <<op, pc, outcome, events, text_to_send, run_args, buffer_size,
                   max_data_size, attempts, conn_socket, reads, data>>
    /\ UNCHANGED client_vars
    /\ UNCHANGED env_vars
    /\ UNCHANGED hist_vars
    /\ UNCHANGED unclosed

\* the collector finalizes the sockets left without close()
finalize ==
    /\ unclosed
    /\ unclosed' = FALSE
    /\ UNCHANGED <<op, pc, outcome, events>>
    /\ UNCHANGED client_vars
    /\ UNCHANGED tx_vars
    /\ UNCHANGED env_vars
    /\ UNCHANGED hist_vars

Next ==
    \/ Construct
    \/ start \/ start_thread \/ start_sleep
    \/ ping \/ kill \/ call
    \/ obtain_socket_connection \/ sendall \/ shutdown
    \/ recv_data \/ recv_eof \/ recv_error \/ close \/ return
    \/ threaded_start \/ child_listens \/ child_exits \/ server_exits
    \/ foreign_listens \/ peer_closes \/ finalize

Spec == Init /\ [][Next]_vars

\* ================================================================ claims
\* the arguments of the constructor call that has just ended
ctor_ended == outcome.op = "__init__"
args == Get(outcome.value)
path_given == ~IsNone(args.optimizer_path)
endpoint_given == ~IsNone(args.ip) /\ ~IsNone(args.port)
descriptor_complete ==
    /\ ~IsNone(args.file)
    /\ {"tcp", "build"} \subseteq DOMAIN Get(args.file)

\* C1: start() called while ip:port accepts connections fails with the
\* port-unavailable error and starts no launch thread, spawns no child and
\* makes no ping; a launch thread is started only by a start() whose probe
\* found the port not accepting connections.
C1_PortProbeGuardsLaunch ==
    [][/\ (idle /\ ~IsNone(optimizer_path) /\ listener # "none")
            => /\ op' # "start"
               /\ launches' = launches
               /\ (outcome' # outcome /\ outcome'.op = "start")
                     => /\ outcome'.status = "PortUnavailable"
                        /\ events' = <<"probe">>
                        /\ threads' = threads
                        /\ children' = children
                        /\ pc' = "idle"
       /\ (idle /\ op' = "start") => listener = "none"
       /\ (launches' # launches)
            => (op = "start" /\ pc = "launch" /\ events = <<"probe">>)
      ]_vars

C1_Witness ==
    /\ outcome = [op |-> "start", status |-> "PortUnavailable", value |-> None]
    /\ listener # "none"
    /\ events = <<"probe">>
    /\ launches = 0 /\ threads = 0 /\ children = 0

\* C2 as stated: constructing with both a launch path and an explicit
\* host/port, or with neither, fails, and a constructed client was given
\* exactly one of the two.
C2_BothOrNeitherFails ==
    ctor_ended =>
        /\ (path_given /\ endpoint_given) => outcome.status # "ok"
        /\ (~path_given /\ ~endpoint_given) => outcome.status # "ok"

\* the endpoint the client connects to is the explicit one it was given
uses_explicit_endpoint ==
    /\ endpoint_given
    /\ optimizer_details.tcp = [ip |-> Get(args.ip), port |-> Get(args.port)]

\* the endpoint the client connects to is the one of the descriptor
uses_descriptor ==
    /\ ~IsNone(optimizer_path)
    /\ ~IsNone(args.file)
    /\ optimizer_details = Get(args.file)

\* C2 amended: constructing with neither a launch path nor a complete
\* host/port pair fails with "Illegal arguments"; constructing with both does
\* not fail on that account: the launch path takes precedence, the descriptor
\* is loaded and the explicit host/port are ignored.  A constructed client
\* uses exactly one of the descriptor of its launch path and the explicit
\* endpoint, never both and never neither.
C2_PathTakesPrecedence ==
    ctor_ended =>
        /\ (~path_given /\ ~endpoint_given) => outcome.status = "IllegalArguments"
        /\ (path_given /\ descriptor_complete) => outcome.status = "ok"
        /\ outcome.status = "ok" => (uses_descriptor # uses_explicit_endpoint)
        /\ (outcome.status = "ok" /\ path_given) => uses_descriptor

C2_Witness ==
    /\ ctor_ended
    /\ path_given /\ endpoint_given
    /\ outcome.status = "ok"
    /\ phase = "constructed"
    /\ optimizer_details.tcp = tcp_of_yml

\* C3: constructing the client with only host and port succeeds and yields a
\* usable remote-only client without build metadata.
C3_RemoteOnlyConstructs ==
    (ctor_ended /\ ~path_given /\ endpoint_given)
        => /\ outcome.status = "ok"
           /\ phase = "constructed"
           /\ DOMAIN optimizer_details = {"tcp"}

\* C4: start() on a client that has no launch path fails with the usage
\* error before any other effect; stated for the caller that constructs a
\* remote-only client: start() can be called on it and then raises the usage
\* error, leaving everything else as it was.
C4_StartWithoutPathIsUsageError ==
    (ctor_ended /\ ~path_given /\ endpoint_given)
        => ENABLED (/\ start
                    /\ outcome'.status = "UsageError"
                    /\ events' = <<>>)

\* C5: connecting is retried a fixed number of times: an operation fails with
\* the connection error after exactly 10 failed attempts, never more and
\* never fewer, whichever of ping(), call(), kill() or start() it is; once an
\* attempt has succeeded the retry is over and no further attempt is made on
\* the transaction, which proceeds with that socket.
C5_ExactlyTenAttempts ==
    /\ attempts \in 0..10
    /\ outcome.status = "ConnectionError" => (attempts = 10 /\ pc = "idle")
    /\ pc = "connect" => (attempts < 10 /\ conn_socket = "none")
    /\ conn_socket # "none" => (attempts = 0 /\ pc \notin {"connect", "idle"})
    /\ (pc = "idle" /\ outcome.status # "ConnectionError") => attempts = 0

C5_Witness ==
    /\ outcome = [op |-> "ping", status |-> "ConnectionError", value |-> None]
    /\ attempts = 10
    /\ events = <<"ping">>

\* C6 as stated: Stopped is terminal: once kill() has completed, no later
\* start() starts a launch again or returns normally.
C6_StoppedIsTerminal ==
    [][kill_done => /\ launches' = launches
                    /\ (outcome'.op = "start" => outcome'.status # "ok")]_vars

\* C6 amended: the client keeps no lifecycle state and kill() is not
\* terminal: after kill() has completed, start() on the same instance behaves
\* as on a fresh one: it fails at entry only with the port-unavailable error,
\* and only while the port accepts connections; with the port free it goes on
\* to the launch, and it can return normally again.
C6_StartAfterKillAsFresh ==
    [][(idle /\ kill_done /\ ~IsNone(optimizer_path) /\ launches < MaxLaunches)
          => /\ (outcome' # outcome /\ outcome'.op = "start")
                  => (outcome'.status = "PortUnavailable" /\ listener # "none")
             /\ listener = "none"
                  => ENABLED (start /\ op' = "start" /\ pc' = "launch")
      ]_vars

C6_Witness ==
    /\ kill_done
    /\ outcome = [op |-> "start", status |-> "ok", value |-> None]
    /\ launches >= 2

\* C7: start() runs probe, launch thread, settling delay and ping in this
\* order, and returns normally only when the ping transaction completed and
\* its response decoded; when the ping's connection retry is exhausted or its
\* response does not decode, start() fails with that error.
start_order == <<"probe", "thread", "sleep", "ping", "connect", "send", "shutdown">>

is_prefix(a, b) == Len(a) <= Len(b) /\ a = SubSeq(b, 1, Len(a))

C7_StartOrderAndReadiness ==
    /\ [](op = "start" => (is_prefix(events, start_order) \/ is_prefix(start_order, events)))
    /\ [][(op = "start" /\ outcome'.op = "start")
            => /\ outcome'.status = "ok"
                 => /\ pc = "decode"
                    /\ conn_socket = "closed"
                    /\ ~IsNone(json_loads(data))
                    /\ is_prefix(start_order, events)
                    /\ events' = Append(events, "decode")
               /\ (pc = "decode" /\ IsNone(json_loads(data)))
                     => outcome'.status = "DecodeError"
               /\ (pc = "connect")
                     => (outcome'.status = "ConnectionError" /\ attempts' = 10)
          ]_vars

C7_Witness ==
    /\ outcome = [op |-> "start", status |-> "ok", value |-> None]
    /\ events = start_order \o <<"recv", "recv", "close", "decode">>

\* the request texts of call() with an empty parameter vector
EmptyParameterTexts ==
    {run_message(<<>>, g, y, q) : g \in Guesses, y \in Multipliers, q \in Penalties}

\* C8 as stated: call() with an empty parameter sequence fails without
\* opening a connection or sending a Run request.
C8_EmptyParametersRejected ==
    (op = "call" /\ text_to_send \in EmptyParameterTexts)
        => (conn_socket = "none" /\ "send" \notin {events[i] : i \in 1..Len(events)})

\* C8 amended: call() does not validate the parameter vector: with an empty
\* sequence it builds the Run request with "parameter": [] and runs the
\* transaction like any other call: it never fails at entry, it connects
\* under the retry and sends the request.
C8_EmptyParametersSent ==
    /\ idle => ENABLED (/\ call
                        /\ text_to_send' = "{\"Run\" : {\"parameter\": []}}"
                        /\ pc' = "connect")
    /\ (op = "call" /\ pc \in {"shutdown", "recv", "close", "decode"})
          => (conn_socket # "none" /\ "send" \in {events[i] : i \in 1..Len(events)})

C8_Witness ==
    /\ op = "call"
    /\ text_to_send = "{\"Run\" : {\"parameter\": []}}"
    /\ pc = "shutdown"
    /\ events = <<"call", "connect", "send">>

\* C9: the response read stops at the first read that returns no data, or at
\* the round cap, whichever comes first: a read that returned no data is the
\* last read of its connection.
C9_NoReadAfterEmptyRead ==
    \A i \in 1..Len(reads) : reads[i] = 0 => i = Len(reads)

\* the least n with n * b >= a
CeilDiv(a, b) == CHOOSE n \in 0..a : n * b >= a /\ (n = 0 \/ (n - 1) * b < a)

RECURSIVE Sum(_)
Sum(q) == IF Len(q) = 0 THEN 0 ELSE q[1] + Sum(Tail(q))

\* C10: a transaction never makes more than ceil(max_data_size/buffer_size)
\* reads, each of at most buffer_size bytes, and never holds more than that
\* many chunks; against a server that keeps sending and never closes, the
\* read loop keeps making progress until the round cap and then goes on to
\* close and return the truncated response, with no transport failure.
C10_ReadsCapped ==
    /\ Len(reads) <= CeilDiv(max_data_size, buffer_size)
    /\ \A i \in 1..Len(reads) : reads[i] <= buffer_size
    /\ Len(data) = Sum(reads)
    /\ Len(data) <= CeilDiv(max_data_size, buffer_size) * buffer_size
    /\ (pc = "recv" /\ peer.mode = "endless")
          => IF Len(reads) < CeilDiv(max_data_size, buffer_size)
             THEN ENABLED recv_data
             ELSE ENABLED close
    /\ (pc = "decode" /\ peer.mode = "endless")
          => /\ Len(reads) = CeilDiv(max_data_size, buffer_size)
             /\ \A i \in 1..Len(reads) : reads[i] > 0
             /\ conn_socket = "closed"

C10_Witness ==
    /\ op = "call"
    /\ peer.mode = "endless"
    /\ pc = "decode"
    /\ Len(reads) = CeilDiv(max_data_size, buffer_size)
    /\ Len(data) > Len(peer.doc)

\* ------------------------------------------------------------------ C11
\* the step on which ping() or call() ends after the connection was closed
decodes == op \in {"ping", "call"} /\ pc = "decode" /\ pc' # pc

\* the bytes read are not one complete document
undecodable(b) == IsNone(bytes_decode(b)) \/ IsNone(json_loads(b))

\* the bytes read are less than what the server had to send
truncated == peer.mode = "endless" \/ Len(data) < Len(peer.doc)

\* C11 as stated: ping() and call() fail with the decode error whenever the
\* response they read is empty, malformed or truncated.
C11_TruncatedResponseFails ==
    [][(decodes /\ (data = <<>> \/ undecodable(data) \/ truncated))
         => outcome'.status = "DecodeError"]_vars

\* C11: ping() and call() end with the decode error, raised to the caller on
\* the same step with no further connection, exactly when the bytes they
\* read do not decode as one complete document (empty, malformed, or cut
\* short inside the document); otherwise they return the decoded document,
\* also when the bytes are a cut-short response that is a complete document
\* in itself.
C11_UndecodableBytesFail ==
    [][decodes
         => /\ op' = "none" /\ pc' = "idle"
            /\ events' = Append(events, "decode")
            /\ outcome'.op = op
            /\ IF undecodable(data)
               THEN outcome'.status = "DecodeError" /\ outcome'.value = None
               ELSE /\ outcome'.status = "ok"
                    /\ outcome'.value =
                         IF op = "ping" THEN json_loads(data)
                         ELSE Some(Get(json_loads(data)))]_vars

\* a ping() has raised the decode error after reading and closing
C11_Witness ==
    /\ outcome = [op |-> "ping", status |-> "DecodeError", value |-> None]
    /\ Len(events) > 0 /\ events[Len(events)] = "decode"
    /\ idle

\* ------------------------------------------------------------------ C12
\* how often e occurs in the sequence q
Count(q, e) == Cardinality({i \in 1..Len(q) : q[i] = e})

\* the step on which kill() ends after its connection was read and closed
kill_ends == op = "kill" /\ pc = "decode" /\ pc' # pc

\* C12 as stated: once its connection is established and read, kill()
\* returns without error whatever bytes the server replied.
C12_KillIgnoresReply ==
    [][kill_ends => outcome'.status = "ok"]_vars

\* C12: kill() makes one transaction with the request {"Kill":1}; once its
\* connection is established and read it returns without error whatever
\* text the server replied (empty and non-JSON included), raising the decode
\* error only for reply bytes that are not UTF-8; it returns whether or not
\* the server process is still there and leaves the processes alone.
C12_KillIgnoresReplyText ==
    /\ [](op = "kill"
            => /\ text_to_send = kill_request
               /\ Count(events, "connect") <= 1
               /\ Count(events, "send") <= 1
               /\ (pc = "decode" => ENABLED return))
    /\ [][kill_ends
            => /\ outcome' = [op |-> "kill",
                              status |-> IF IsNone(bytes_decode(data))
                                         THEN "DecodeError" ELSE "ok",
                              value |-> None]
               /\ op' = "none" /\ pc' = "idle"
               /\ Count(events, "connect") = 1 /\ Count(events, "send") = 1
               /\ UNCHANGED env_vars]_vars

\* kill() has returned after a full transaction and the server it
\* addressed is still listening
C12_Witness ==
    /\ outcome = [op |-> "kill", status |-> "ok", value |-> None]
    /\ events = <<"kill", "connect", "send", "shutdown", "recv", "recv",
                  "close", "decode">>
    /\ listener = "child"
    /\ idle

\* ------------------------------------------------------------------ C13
\* C13: when the read phase of a transaction is over, by the peer's close or
\* by the round cap, its connection is closed before the response is
\* decoded; a closed connection is never written to or read again; every
\* ping(), call() and kill() starts without a connection and opens its own,
\* at most one, which carries at most one request.
C13_ClosedAfterReadNeverReused ==
    /\ [](/\ (pc = "decode" => conn_socket = "closed")
          /\ (conn_socket = "closed" => pc = "decode")
          /\ (pc \in {"idle", "connect"} => conn_socket = "none")
          /\ (conn_socket # "none" => Count(events, "connect") = 1)
          /\ (pc = "send" => Count(events, "send") = 0)
          /\ Count(events, "send") <= Count(events, "connect")
          /\ Count(events, "connect") <= 1)
    /\ [][/\ (pc \in {"recv", "close"} /\ pc' = "decode")
               => conn_socket' = "closed"
          /\ conn_socket = "closed" => conn_socket' \in {"closed", "none"}
          /\ (op' \in {"ping", "call", "kill"} /\ op' # op)
               => (conn_socket' = "none" /\ pc' = "connect")]_vars

\* a call() whose read was ended by the round cap on a server that keeps
\* sending has closed its connection
C13_Witness ==
    /\ op = "call" /\ pc = "decode"
    /\ conn_socket = "closed"
    /\ peer.mode = "endless"
    /\ Len(reads) = max_read_rounds(max_data_size, buffer_size)

\* ------------------------------------------------------------------ C14
\* the steps of the transaction of the operation in progress or just ended
tx_events ==
    IF Count(events, "connect") = 0 THEN <<>>
    ELSE LET first == CHOOSE i \in 1..Len(events) :
                         events[i] = "connect" /\ \A j \in 1..(i - 1) : events[j] # "connect"
         IN  SubSeq(events, first, Len(events))

\* connect, then the write, then the half-close, then reads, then close
in_transaction_order(t) ==
    \A i \in 1..Len(t) :
       /\ t[i] = "connect" => i = 1
       /\ t[i] \in {"send", "send_failed"} => i = 2
       /\ t[i] \in {"shutdown", "shutdown_failed"} => (i = 3 /\ t[2] = "send")
       /\ t[i] \in {"send_failed", "shutdown_failed", "recv_failed"} => i = Len(t)
       /\ t[i] \in {"recv", "recv_failed", "close"}
            => /\ i > 3
               /\ t[3] = "shutdown"
               /\ \A j \in 4..(i - 1) : t[j] = "recv"
       /\ t[i] = "decode" => (i > 1 /\ t[i - 1] = "close")

\* C14: within one transaction the connection is established first, then
\* the whole request is written, then the write side is half-closed, then the
\* response is read, then the connection is closed: no read happens on a
\* connection that is not half-closed, and nothing is written once it is.
C14_TransactionOrder ==
    /\ [](/\ in_transaction_order(tx_events)
          /\ (pc = "recv" => conn_socket = "halfclosed")
          /\ (pc = "send" => conn_socket = "open")
          /\ (reads # <<>> => conn_socket \in {"halfclosed", "closed"}))
    /\ [][/\ Count(events', "recv") > Count(events, "recv")
               => (conn_socket = "halfclosed" /\ Count(events, "shutdown") = 1)
          /\ Count(events', "send") > Count(events, "send")
               => (conn_socket = "open" /\ Count(events', "shutdown") = 0)
          /\ Count(events', "shutdown") > Count(events, "shutdown")
               => (conn_socket = "open" /\ Count(events, "send") = 1)
          /\ Count(events', "close") > Count(events, "close")
               => conn_socket = "halfclosed"]_vars

\* a ping() has gone through all five phases
C14_Witness ==
    /\ op = "ping" /\ pc = "decode"
    /\ events = <<"ping", "connect", "send", "shutdown", "recv", "recv", "close">>
    /\ data = <<"[", "1", "]">>

\* ------------------------------------------------------------------ C15
\* the step is a failed write, half-close, read or decode
fails_after_connect ==
    \/ Count(events', "send_failed") > Count(events, "send_failed")
    \/ Count(events', "shutdown_failed") > Count(events, "shutdown_failed")
    \/ Count(events', "recv_failed") > Count(events, "recv_failed")
    \/ pc = "decode" /\ outcome'.status = "DecodeError"

\* C15: only the connector retries.  In one ping(), call() or kill() the
\* request is written at most once, on at most one established connection,
\* and once a connection is established the operation never goes back to
\* connecting: a failed write, half-close, read or decode ends the operation
\* on that step with that error.
C15_NoRetryAboveConnector ==
    /\ [](Count(events, "connect") <= 1
           /\ Count(events, "send") + Count(events, "send_failed")
                <= Count(events, "connect"))
    /\ [][/\ (op # "none" /\ conn_socket # "none")
               => (pc' # "connect" /\ attempts' = 0
                   /\ Count(events', "connect") = Count(events, "connect"))
          /\ fails_after_connect
               => /\ op' = "none" /\ pc' = "idle"
                  /\ outcome'.op = op
                  /\ outcome'.status =
                       IF pc = "decode" THEN "DecodeError" ELSE "TransportError"
                  /\ Count(events', "connect") = 1]_vars

\* a call() has failed on its write, after one connection and no more
C15_Witness ==
    /\ outcome = [op |-> "call", status |-> "TransportError", value |-> None]
    /\ events = <<"call", "connect", "send_failed">>
    /\ idle

\* ------------------------------------------------------------------ C16
\* C16: the launch runs beside the caller.  Every step of start() after the
\* probe can be taken whatever the launch thread and the child are doing;
\* the launch thread ending, with or without a child, and a child exiting
\* leave start() where it is; start() ends only inside its readiness ping;
\* and a start() that no server accepted a connection from fails with the
\* connection error of the tenth attempt.
C16_LaunchRunsBesideStart ==
    /\ [](op = "start"
            => /\ (pc = "launch" => ENABLED start_thread)
               /\ (pc = "sleep" => ENABLED start_sleep)
               /\ (pc = "ping" => ENABLED ping))
    /\ [][/\ (threads' < threads \/ children' < children)
               => UNCHANGED <<op, pc, outcome, events>>
          /\ (op = "start" /\ op' = "none")
               => /\ pc \in {"connect", "send", "shutdown", "recv", "decode"}
                  /\ outcome'.op = "start"
                  /\ outcome'.status \in {"ok", "ConnectionError",
                                           "TransportError", "DecodeError"}
          /\ (op = "start" /\ op' = "none" /\ Count(events, "connect") = 0)
               => /\ outcome'.status = "ConnectionError"
                  /\ pc = "connect"
                  /\ attempts' = tries]_vars

\* the launch thread died on a descriptor without 'meta', no server came up,
\* and start() failed on the last connection attempt of its ping
C16_Witness ==
    /\ outcome = [op |-> "start", status |-> "ConnectionError", value |-> None]
    /\ events = <<"probe", "thread", "sleep", "ping">>
    /\ attempts = tries
    /\ "meta" \notin DOMAIN optimizer_details
    /\ threads = 0 /\ children = 0 /\ listener = "none"

\* ------------------------------------------------------------------ C17
\* the text of a parameter and of a parameter vector
NumberText(x) ==
    CASE x = 1 -> "1" [] x = 2 -> "2" [] x = 3 -> "3" [] OTHER -> "?"

ParameterText(p) ==
    CASE Len(p) = 0 -> ""
      [] Len(p) = 1 -> NumberText(p[1])
      [] Len(p) = 2 -> NumberText(p[1]) \o "," \o NumberText(p[2])
      [] OTHER -> "?"

\* the optional fields expected after the parameter array, by which of
\* initial_guess <<3>>, initial_y <<4, 5>> and initial_penalty 6 are supplied
ExpectedFields(g, y, q) ==
    CASE ~g /\ ~y /\ ~q -> ""
      [] g /\ ~y /\ ~q -> ", \"initial_guess\": [3]"
      [] ~g /\ y /\ ~q -> ", \"initial_lagrange_multipliers\": [4,5]"
      [] ~g /\ ~y /\ q -> ", \"initial_penalty\": 6.0"
      [] g /\ y /\ ~q ->
           ", \"initial_guess\": [3], \"initial_lagrange_multipliers\": [4,5]"
      [] g /\ ~y /\ q -> ", \"initial_guess\": [3], \"initial_penalty\": 6.0"
      [] ~g /\ y /\ q ->
           ", \"initial_lagrange_multipliers\": [4,5], \"initial_penalty\": 6.0"
      [] g /\ y /\ q ->
           ", \"initial_guess\": [3], \"initial_lagrange_multipliers\": [4,5], \"initial_penalty\": 6.0"

\* C17: the request of a call() is the Run object with the parameter array
\* first, followed by initial_guess, initial_lagrange_multipliers and
\* initial_penalty, each present exactly when the caller supplied it, in
\* that order, for each of the eight combinations.
C17_RunRequestFields ==
    ~IsNone(run_args) =>
        LET a == Get(run_args)
        IN  /\ op = "call"
            /\ text_to_send =
                 "{\"Run\" : {\"parameter\": [" \o ParameterText(a.p) \o "]"
                 \o ExpectedFields(~IsNone(a.initial_guess), ~IsNone(a.initial_y),
                                   ~IsNone(a.initial_penalty))
                 \o "}}"

\* a call() with a guess and a penalty and no multipliers has sent its request
C17_Witness ==
    /\ op = "call"
    /\ run_args = Some([p |-> <<1>>, initial_guess |-> Some(<<3>>),
                         initial_y |-> None, initial_penalty |-> Some(6)])
    /\ text_to_send =
         "{\"Run\" : {\"parameter\": [1], \"initial_guess\": [3], \"initial_penalty\": 6.0}}"
    /\ Count(events, "send") = 1

\* ------------------------------------------------------------------ C18
\* C18: ping() can be called whenever the constructed client is idle, before
\* any start(), after a failed one and after kill(); it makes one transaction
\* with the request {"Ping":1}; and no step of start(), ping(), call() or
\* kill() changes the launch path or the host and port the constructor
\* resolved.
C18_PingChangesNothing ==
    /\ [](/\ (idle => ENABLED ping)
          /\ (op = "ping" => /\ text_to_send = ping_request
                              /\ Count(events, "ping") = 1
                              /\ Count(events, "connect") <= 1
                              /\ Count(events, "send") <= 1))
    /\ [][/\ phase = "constructed"
               => UNCHANGED <<phase, optimizer_path, optimizer_details, warned>>
          /\ (op' = "ping" \/ op = "ping")
               => UNCHANGED <<launches, kill_done>>]_vars

\* a ping() made after kill() has returned on a client that had launched
\* its server, and answered
C18_Witness ==
    /\ kill_done /\ launches >= 1
    /\ outcome.op = "ping" /\ outcome.status = "ok"
    /\ events = <<"ping", "connect", "send", "shutdown", "recv", "recv",
                  "close", "decode">>
    /\ "tcp" \in DOMAIN optimizer_details
    /\ ~IsNone(optimizer_path)
    /\ idle

\* ------------------------------------------------------------------ C19
\* C19: whenever no public operation is in progress the client holds no
\* open socket: every socket an operation created (the probe socket of
\* start(), the sockets of failed connection attempts, the transaction
\* socket of a failed write, half-close or read) was closed before the
\* operation ended.
C19_NoSocketLeftOpen ==
    op = "none" => (~unclosed /\ conn_socket = "none")

\* ------------------------------------------------------------------ C20
\* the children this client launched that are alive
alive_children == children + (IF listener = "child" THEN 1 ELSE 0)

\* C20: over any sequence of start() calls at most one child process
\* launched by this client is alive at any time.
C20_AtMostOneChild ==
    alive_children <= 1

====
